---- MODULE Spec2Model ----
(***************************************************************************)
(* Model of kittens/transfer/rsync.c: the Python extension that drives     *)
(* librsync jobs (signature, load-signature, delta, patch).                *)
(*                                                                         *)
(* Two parts share the module.  The streaming part models iter_job: the    *)
(* loop around rs_job_iter with its output buffer growth.  The lifecycle   *)
(* part models the capsules made by the begin_* functions and their        *)
(* destructors.  librsync itself is outside the repository: rs_job_iter    *)
(* is modelled as a deterministic byte transducer (what it emits is a      *)
(* function of what it has consumed) whose pace and result codes are       *)
(* chosen nondeterministically within its interface.                       *)
(***************************************************************************)
EXTENDS Integers, Sequences, FiniteSets, TLC

\* ---------------------------------------------------------------- bounds
MaxByte == 2      \* input bytes are 1..MaxByte
MaxStream == 2    \* length of the whole input stream of the job
MaxOut == 2       \* length of the bytearray the caller passes to iter_job
MaxGrow == 2      \* growth events after which PyByteArray_Resize runs out of memory
MaxJobs == 3      \* engine jobs the begin_* functions allocate in a run
MaxSigs == 1      \* signatures rs_loadsig_begin allocates in a run

\* ------------------------------------------------------ program constants
IO_BUFFER_SIZE == 65536

\* rs_result codes (librsync.h), as used by rsync.c
RS_DONE == "RS_DONE"
RS_BLOCKED == "RS_BLOCKED"
RS_RUNNING == "RS_RUNNING"
RS_IO_ERROR == "RS_IO_ERROR"
RS_MEM_ERROR == "RS_MEM_ERROR"
RS_INTERNAL_ERROR == "RS_INTERNAL_ERROR"
RS_CORRUPT == "RS_CORRUPT"

JobKinds == {"signature", "load_signature", "delta", "patch"}

Bytes == 1..MaxByte
Unwritten == 0 - 1   \* a byte of the output array nobody has stored into

Min(a, b) == IF a < b THEN a ELSE b
MAX(a, b) == IF a > b THEN a ELSE b

VARIABLES
    \* --- the job handle iter_job is called on, and librsync's state of it
    job_kind,       \* variant of the job
    engine,         \* [tube, eof_seen]: output queued inside librsync, end of input seen
    \* --- the caller of iter_job
    stream,         \* the whole input the caller has for the job
    fed,            \* how much of stream the job has consumed
    collected,      \* output the caller has taken from returned calls
    job_done,       \* a call returned done = True
    job_dead,       \* a call raised
    job_grew,       \* some call on the job grew its output array
    \* --- one iter_job call
    pc,             \* "idle", "loop", "grow", "raise", "return"
    input_buf,      \* the input chunk of the call
    output_array,   \* [len, data]: the bytearray; data holds the stored prefix
    output_buf_len, \* output_buf.len
    buffer,         \* rs_buffers_t: avail_in, next_in, eof_in, avail_out, next_out (offsets)
    output_size,
    result,
    ret,            \* what the last finished call gave back
    \* --- history of the current call (not program state)
    results,        \* result codes of the engine iterations of the call
    eng_consumed,   \* input bytes the engine consumed in the call
    eng_written,    \* output bytes the engine wrote in the call
    grows,          \* growth events of the call
    cb_calls,       \* copy_callback invocations of the call
    cb_raised,      \* the Python callback raised in the call
    cb_len,         \* *len as the last copy_callback that returned RS_DONE left it
    \* --- capsules and what they own
    jobs,           \* the engine jobs allocated so far, each with its capsule
    sigs,           \* the signatures allocated so far, each with its capsule
    callback_refcnt,\* reference count of the data-source callback object
    last            \* what the last begin_* / build_hash_table call did

iter_vars == <<job_kind, engine, stream, fed, collected, job_done, job_dead, job_grew, pc,
               input_buf, output_array, output_buf_len, buffer, output_size,
               result, ret, results, eng_consumed, eng_written, grows, cb_calls,
               cb_raised, cb_len>>

life_vars == <<jobs, sigs, callback_refcnt, last>>

vars == <<iter_vars, life_vars>>

\* ------------------------------------------------------------ the engine
\* What the job emits for one input byte b: b copies of b.
RECURSIVE Emit(_)
Emit(bs) == IF bs = <<>> THEN <<>>
            ELSE [i \in 1..Head(bs) |-> Head(bs)] \o Emit(Tail(bs))

\* What the job emits once it has seen the end of its input.
Trailer == <<0>>

\* The engine consumes k bytes of rest and writes what fits into avail_out.
EngineProgress(e, rest, eof_in, avail_out, k) ==
    LET tube1 == e.tube \o Emit(SubSeq(rest, 1, k))
        ending == eof_in /\ k = Len(rest) /\ ~e.eof_seen
        tube2 == IF ending THEN tube1 \o Trailer ELSE tube1
        m == Min(avail_out, Len(tube2))
    IN  [k |-> k,
         wrote |-> SubSeq(tube2, 1, m),
         eng |-> [tube |-> SubSeq(tube2, m + 1, Len(tube2)),
                  eof_seen |-> e.eof_seen \/ ending]]

\* A job that has consumed nothing yet.
NewJob == [tube |-> <<>>, eof_seen |-> FALSE]

\* The output of a job driven over the whole input s and then told the input
\* has ended, with one output buffer of `space` bytes, enough for all of it.
WholeOutput(s, space) ==
    LET p1 == EngineProgress(NewJob, s, FALSE, space, Len(s))
        p2 == EngineProgress(p1.eng, <<>>, TRUE, space - Len(p1.wrote), 0)
    IN  p1.wrote \o p2.wrote

\* Result codes the engine may report after the progress p.
ProgressResults(p) ==
    IF p.eng.eof_seen /\ p.eng.tube = <<>> THEN {RS_DONE}
    ELSE IF p.eng.tube # <<>> THEN {RS_BLOCKED, RS_RUNNING}
    ELSE {RS_BLOCKED}

\* One rs_job_iter call: the set of outcomes [k, wrote, eng, result, cb].  A job
\* that has finished reports RS_DONE again and does nothing.  cb is what the
\* Python callback of a patch job did when copy_callback ran in this iteration
\* ("none": it did not run): it returned the requested length ("ok"), an
\* integer above it ("toolong"), a negative integer ("negative"), something
\* that is no integer ("nonint"), it raised ("raise"), or the memoryview for
\* it could not be made ("nomem").
\* A failing iteration makes no progress and leaves the job as it was, so a
\* later iteration runs the same step of the job again.
CbOutcomes == {"ok", "toolong", "negative", "raise", "nonint", "nomem"}

\* The number of bytes librsync asks the callback for.
CopyLen == MaxByte

\* (size_t)-1, which PyLong_AsSize_t returns for a negative integer (with
\* OverflowError set); the largest integer of the model stands for it.
SIZE_MAX == 2147483647

\* No copy_callback has returned RS_DONE in the call yet.
NoLen == 0 - 1

\* copy_callback: *len as it leaves it, for the len bytes asked for.
copy_callback_len(cb, len) ==
    CASE cb = "toolong" -> len + 1
      [] cb = "negative" -> SIZE_MAX
      [] OTHER -> len

\* copy_callback: the rs_result it hands to librsync for what the callback did.
copy_callback(cb) ==
    CASE cb = "nomem" -> RS_MEM_ERROR
      [] cb = "raise" -> RS_IO_ERROR
      [] cb = "nonint" -> RS_INTERNAL_ERROR
      [] OTHER -> RS_DONE

NoProgress(e) == [k |-> 0, wrote |-> <<>>, eng |-> e]

rs_job_iter(kind, e, rest, eof_in, avail_out) ==
    IF e.eof_seen /\ e.tube = <<>>
    THEN {NoProgress(e) @@ [result |-> RS_DONE, cb |-> "none"]}
    ELSE
      LET cbs == IF kind = "patch" THEN {"none"} \cup CbOutcomes ELSE {"none"}
          moves == {p \in {EngineProgress(e, rest, eof_in, avail_out, k) : k \in 0..Len(rest)} :
                      (Len(rest) > 0 /\ avail_out > 0) => (p.k > 0 \/ p.wrote # <<>>)}
      IN  UNION {
            IF copy_callback(cb) # RS_DONE
            THEN {NoProgress(e) @@ [result |-> copy_callback(cb), cb |-> cb]}
            ELSE UNION {{p @@ [result |-> r, cb |-> cb] : r \in ProgressResults(p)} : p \in moves}
                 \cup (IF cb = "none"
                       THEN {NoProgress(e) @@ [result |-> RS_CORRUPT, cb |-> cb]}
                       ELSE {})
            : cb \in cbs}

\* ------------------------------------------------------------- iter_job
\* The bytes of the array after storing bs at offset off (0-based).
WriteAt(data, off, bs) ==
    LET n == MAX(Len(data), off + Len(bs))
    IN  [i \in 1..n |-> IF i > off /\ i <= off + Len(bs) THEN bs[i - off]
                        ELSE IF i <= Len(data) THEN data[i]
                        ELSE Unwritten]

\* The first n bytes of the array.
Prefix(data, n) == [i \in 1..n |-> IF i <= Len(data) THEN data[i] ELSE Unwritten]

\* rs_buffers_t that never tells the job its input has ended.
InitBufferNoEof(in_len, out_len) ==
    [avail_in |-> in_len, next_in |-> 0, eof_in |-> FALSE,
     avail_out |-> out_len, next_out |-> 0]

\* rs_buffers_t at the start of the call.
InitBuffer(in_len, out_len) ==
    [avail_in |-> in_len, next_in |-> 0, eof_in |-> (IF in_len > 0 THEN FALSE ELSE TRUE),
     avail_out |-> out_len, next_out |-> 0]

\* A loop that is left on RS_DONE only.
LoopBreaksDoneOnly(res) == res = RS_DONE

\* The loop is left on these results.
LoopBreaks(res) == res = RS_DONE \/ res = RS_BLOCKED

\* A new size that is never more than the default size or the present one.
GrownSizeNoDouble(len) == MAX(IO_BUFFER_SIZE, len)

\* A new size that is twice the present one, with no least size.
GrownSizeNoFloor(len) == len * 2

\* New size of the output array at a growth event.
GrownSize(len) == MAX(IO_BUFFER_SIZE, len * 2)

\* Growth that starts writing at the start of the resized array again.
GrownBufferFromStart(buf, new_len, out_size) ==
    [buf EXCEPT !.avail_out = new_len - out_size, !.next_out = 0]

\* Growth that takes the whole resized array as free space.
GrownBufferFullSpace(buf, new_len, out_size) ==
    [buf EXCEPT !.avail_out = new_len, !.next_out = out_size]

\* Growth that also rewinds the input cursor to the start of the chunk.
GrownBufferRewindInput(buf, new_len, out_size) ==
    [buf EXCEPT !.avail_out = new_len - out_size, !.next_out = out_size,
                !.avail_in = buf.avail_in + buf.next_in, !.next_in = 0]

\* The output cursor after the array was resized and its buffer taken again.
GrownBuffer(buf, new_len, out_size) ==
    [buf EXCEPT !.avail_out = new_len - out_size, !.next_out = out_size]

\* A return value that reports the length of the whole chunk as unused.
BuildValueWholeInput(res, buf, out_size) ==
    [kind |-> "triple", done |-> (res = RS_DONE), unused |-> buf.avail_in + buf.next_in,
     produced |-> out_size]

\* The value iter_job returns.
BuildValue(res, buf, out_size) ==
    [kind |-> "triple", done |-> (res = RS_DONE), unused |-> buf.avail_in,
     produced |-> out_size]

NoRet == [kind |-> "none"]

\* Lines 82-95: parse the arguments, take the buffers, set up rs_buffers_t.
IterJobCall ==
    /\ pc = "idle"
    /\ ~job_dead
    /\ \E n \in 0..(Len(stream) - fed), osize \in 0..MaxOut :
          /\ (n = 0) = (fed = Len(stream))
          /\ input_buf' = SubSeq(stream, fed + 1, fed + n)
          /\ output_array' = [len |-> osize, data |-> <<>>]
          /\ output_buf_len' = osize
          /\ buffer' = InitBuffer(n, osize)
    /\ output_size' = 0
    /\ result' = RS_DONE
    /\ ret' = NoRet
    /\ results' = <<>>
    /\ eng_consumed' = 0
    /\ eng_written' = 0
    /\ grows' = 0
    /\ cb_calls' = 0
    /\ cb_raised' = FALSE
    /\ cb_len' = NoLen
    /\ pc' = "loop"
    /\ UNCHANGED <<job_kind, engine, stream, fed, collected, job_done, job_dead, job_grew>>
    /\ UNCHANGED life_vars

\* Lines 97-101, 108: one engine iteration, the accounting and the branch.
IterJobLoop ==
    /\ pc = "loop"
    /\ \E o \in rs_job_iter(job_kind, engine,
                            SubSeq(input_buf, buffer.next_in + 1,
                                   buffer.next_in + buffer.avail_in),
                            buffer.eof_in, buffer.avail_out) :
          LET before == buffer.avail_out
              after == [buffer EXCEPT !.avail_in = @ - o.k, !.next_in = @ + o.k,
                                      !.avail_out = @ - Len(o.wrote),
                                      !.next_out = @ + Len(o.wrote)]
          IN  /\ engine' = o.eng
              /\ output_array' = [output_array EXCEPT
                                    !.data = WriteAt(@, buffer.next_out, o.wrote)]
              /\ buffer' = after
              /\ result' = o.result
              /\ output_size' = output_size + (before - after.avail_out)
              /\ results' = Append(results, o.result)
              /\ eng_consumed' = eng_consumed + o.k
              /\ eng_written' = eng_written + Len(o.wrote)
              /\ cb_calls' = cb_calls + (IF o.cb = "none" THEN 0 ELSE 1)
              /\ cb_raised' = (cb_raised \/ o.cb = "raise")
              /\ cb_len' = IF o.cb # "none" /\ copy_callback(o.cb) = RS_DONE
                            THEN copy_callback_len(o.cb, CopyLen)
                            ELSE cb_len
              /\ pc' = IF LoopBreaks(o.result) THEN "return"
                       ELSE IF after.avail_in # 0 THEN "grow"
                       ELSE "raise"
    /\ UNCHANGED <<job_kind, stream, fed, collected, job_done, job_dead, job_grew,
                   input_buf, output_buf_len, ret, grows>>
    /\ UNCHANGED life_vars

\* The largest array PyByteArray_Resize can make: what MaxGrow growth events
\* from a small array come to.
MemLimit == IO_BUFFER_SIZE * 2 ^ (MaxGrow - 1)

\* Lines 102-107: release the buffer, resize the array, take the buffer again.
\* PyByteArray_Resize (or PyObject_GetBuffer) can fail, for lack of memory, at
\* any growth, and does when the new size is above MemLimit; iter_job then
\* returns NULL with the exception of the failed call set.
IterJobGrow ==
    /\ pc = "grow"
    /\ \/ /\ GrownSize(output_array.len) <= MemLimit
          /\ LET new_len == GrownSize(output_array.len)
             IN  /\ output_array' = [output_array EXCEPT !.len = new_len]
                 /\ output_buf_len' = new_len
                 /\ buffer' = GrownBuffer(buffer, new_len, output_size)
          /\ grows' = grows + 1
          /\ job_grew' = TRUE
          /\ pc' = "loop"
          /\ UNCHANGED <<ret, job_dead>>
       \/ /\ ret' = [kind |-> "error", exc |-> "MemoryError"]
          /\ job_dead' = TRUE
          /\ pc' = "idle"
          /\ UNCHANGED <<output_array, output_buf_len, buffer, grows, job_grew>>
    /\ UNCHANGED <<job_kind, engine, stream, fed, collected, job_done, input_buf,
                   output_size, result, results, eng_consumed, eng_written,
                   cb_calls, cb_raised, cb_len>>
    /\ UNCHANGED life_vars

\* Lines 109-110: set RsyncError from rs_strerror(result) and return NULL.
IterJobRaise ==
    /\ pc = "raise"
    /\ ret' = [kind |-> "error", exc |-> "RsyncError", code |-> result]
    /\ job_dead' = TRUE
    /\ pc' = "idle"
    /\ UNCHANGED <<job_kind, engine, stream, fed, collected, job_done, job_grew,
                   input_buf, output_array, output_buf_len, buffer, output_size, result,
                   results, eng_consumed, eng_written, grows, cb_calls, cb_raised, cb_len>>
    /\ UNCHANGED life_vars

\* Lines 112-113: return the triple; the caller takes the produced bytes and
\* drops the consumed part of its input.
IterJobReturn ==
    /\ pc = "return"
    /\ LET v == BuildValue(result, buffer, output_size)
       IN  /\ ret' = v
           /\ collected' = collected \o Prefix(output_array.data, v.produced)
           /\ fed' = fed + (Len(input_buf) - v.unused)
           /\ job_done' = (job_done \/ v.done)
    /\ pc' = "idle"
    /\ UNCHANGED <<job_kind, engine, stream, job_dead, job_grew, input_buf, output_array,
                   output_buf_len, buffer, output_size, result, results,
                   eng_consumed, eng_written, grows, cb_calls, cb_raised, cb_len>>
    /\ UNCHANGED life_vars

\* ---------------------------------------------- capsules and destructors
NULL == "NULL"
RsyncError == "RsyncError"   \* the placeholder pointer of a new job capsule
JOB == "job"                 \* the rs_job_t* the begin function of the engine returned
CALLBACK == "callback"       \* the data-source callback object

\* job_capsule when it is NULL: no capsule.
NO_CAPSULE == [pointer |-> NULL, context |-> NULL]

\* PyCapsule_IsValid(capsule, JOB_WITH_CALLBACK_CAPSULE) on a job capsule.
PyCapsule_IsValid(capsule) == capsule.pointer # NULL

\* A destructor that frees whatever pointer the capsule holds.
free_job_unchecked(capsule) ==
    [rs_job_free |-> IF PyCapsule_IsValid(capsule) /\ capsule.pointer # NULL THEN 1 ELSE 0,
     decref |-> IF PyCapsule_IsValid(capsule) /\ capsule.context # NULL THEN 1 ELSE 0]

\* A destructor that forgets the callback.
free_job_keeps_callback(capsule) ==
    [rs_job_free |-> IF PyCapsule_IsValid(capsule) /\ capsule.pointer # NULL
                        /\ capsule.pointer # RsyncError THEN 1 ELSE 0,
     decref |-> 0]

\* free_job_with_callback_capsule: how often it calls rs_job_free and how often
\* it drops a reference to the callback.
free_job_with_callback_capsule(capsule) ==
    [rs_job_free |-> IF PyCapsule_IsValid(capsule) /\ capsule.pointer # NULL
                        /\ capsule.pointer # RsyncError THEN 1 ELSE 0,
     decref |-> IF PyCapsule_IsValid(capsule) /\ capsule.context # NULL THEN 1 ELSE 0]

\* The ways the steps of CREATE_JOB can fail.
Failures == [new_ok : BOOLEAN, job_ok : BOOLEAN, setptr_ok : BOOLEAN, setctx_ok : BOOLEAN]

\* CREATE_JOB(func, cb, ...): the capsule it leaves in job_capsule (NULL when
\* it was not made or was cleared), whether func was called, the job func
\* returned, how often the job was freed, and the references to cb taken and
\* dropped.  how names the path taken.
CREATE_JOB(cb, f) ==
    LET c0 == [pointer |-> RsyncError, context |-> NULL]
        c1 == [c0 EXCEPT !.pointer = JOB]
        c2 == [c1 EXCEPT !.context = cb]
        cleared(c, job, direct, how) ==
            LET d == free_job_with_callback_capsule(c)
            IN  [job_capsule |-> NO_CAPSULE, func_called |-> TRUE, job |-> job,
                 rs_job_free |-> direct + d.rs_job_free, incref |-> 0,
                 decref |-> d.decref, how |-> how]
    IN  IF ~f.new_ok
        THEN [job_capsule |-> NO_CAPSULE, func_called |-> FALSE, job |-> NULL,
              rs_job_free |-> 0, incref |-> 0, decref |-> 0, how |-> "no_capsule"]
        ELSE IF ~f.job_ok THEN cleared(c0, NULL, 0, "no_job")
        ELSE IF ~f.setptr_ok THEN cleared(c0, JOB, 1, "setpointer_failed")
        ELSE IF cb = NULL
        THEN [job_capsule |-> c1, func_called |-> TRUE, job |-> JOB,
              rs_job_free |-> 0, incref |-> 0, decref |-> 0, how |-> "ok"]
        ELSE IF f.setctx_ok
        THEN [job_capsule |-> c2, func_called |-> TRUE, job |-> JOB,
              rs_job_free |-> 0, incref |-> 1, decref |-> 0, how |-> "ok"]
        ELSE cleared(c1, JOB, 0, "setcontext_failed")

\* The record kept of a job the engine allocated in a begin call.
JobRecord(kind, c, sig) ==
    [kind |-> kind, how |-> c.how, frees |-> c.rs_job_free,
     capsule |-> IF c.job_capsule = NO_CAPSULE THEN "none" ELSE "live",
     pointer |-> IF c.job_capsule = NO_CAPSULE THEN NULL ELSE c.job_capsule.pointer,
     context |-> IF c.job_capsule = NO_CAPSULE THEN NULL ELSE c.job_capsule.context,
     sig |-> sig]

\* The jobs after a CREATE_JOB: a job the engine returned is on record.
WithJob(kind, c, sig) ==
    IF c.job = NULL THEN jobs ELSE Append(jobs, JobRecord(kind, c, sig))

Outcome(op, exc, c) ==
    [op |-> op, exc |-> exc, func_called |-> c.func_called,
     returned |-> (exc = "none" /\ c.job_capsule # NO_CAPSULE), how |-> c.how,
     rs_job_free |-> c.rs_job_free]

NotCalled == [func_called |-> FALSE, job_capsule |-> NO_CAPSULE, how |-> "not_reached",
              rs_job_free |-> 0]

LiveSigs == {i \in 1..Len(sigs) : sigs[i].capsule = "live"}
LiveJobs == {i \in 1..Len(jobs) : jobs[i].capsule = "live"}

\* begin_create_signature (lines 52-72).  With KITTY_HAS_RS_SIG_ARGS the call
\* fails with ValueError when rs_sig_args rejects the arguments.
begin_create_signature ==
    /\ Len(jobs) < MaxJobs
    /\ \/ /\ last' = Outcome("begin_create_signature", "ValueError", NotCalled)
          /\ UNCHANGED jobs
       \/ \E f \in Failures :
             LET c == CREATE_JOB(NULL, f)
             IN  /\ jobs' = WithJob("signature", c, 0)
                 /\ last' = Outcome("begin_create_signature", "none", c)
    /\ UNCHANGED <<sigs, callback_refcnt>>
    /\ UNCHANGED iter_vars

\* begin_load_signature (lines 116-124).  rs_loadsig_begin allocates the
\* signature together with the job; rs_free_sumset(sig) runs on the two
\* failure paths, with sig still NULL when the job was never made.
begin_load_signature ==
    /\ Len(jobs) < MaxJobs
    /\ Len(sigs) < MaxSigs
    /\ \E f \in Failures, sc_ok \in BOOLEAN :
          LET c == CREATE_JOB(NULL, f)
              sig_made == c.job # NULL
              sig_id == Len(sigs) + 1
          IN  IF c.job_capsule = NO_CAPSULE
              THEN /\ jobs' = WithJob("load_signature", c, IF sig_made THEN sig_id ELSE 0)
                   /\ sigs' = IF sig_made
                              THEN Append(sigs, [capsule |-> "none", frees |-> 1, built |-> FALSE])
                              ELSE sigs
                   /\ last' = Outcome("begin_load_signature", "none", c)
                                 @@ [free_sumset_null |-> ~sig_made]
              ELSE IF ~sc_ok
              THEN LET d == free_job_with_callback_capsule(c.job_capsule)
                       cleared == [c EXCEPT !.job_capsule = NO_CAPSULE,
                                            !.rs_job_free = @ + d.rs_job_free,
                                            !.how = "no_sig_capsule"]
                   IN  /\ jobs' = WithJob("load_signature", cleared, sig_id)
                       /\ sigs' = Append(sigs, [capsule |-> "none", frees |-> 1, built |-> FALSE])
                       /\ last' = Outcome("begin_load_signature", "none", cleared)
                                     @@ [free_sumset_null |-> FALSE]
              ELSE /\ jobs' = WithJob("load_signature", c, sig_id)
                   /\ sigs' = Append(sigs, [capsule |-> "live", frees |-> 0, built |-> FALSE])
                   /\ last' = Outcome("begin_load_signature", "none", c)
                                 @@ [free_sumset_null |-> FALSE]
    /\ UNCHANGED callback_refcnt
    /\ UNCHANGED iter_vars

\* build_hash_table (lines 131-142) on a signature capsule.
build_hash_table ==
    /\ \E s \in LiveSigs, res \in {RS_DONE, RS_MEM_ERROR} :
          /\ sigs' = [sigs EXCEPT ![s].built = (@ \/ res = RS_DONE)]
          /\ last' = [op |-> "build_hash_table", sig |-> s,
                      exc |-> IF res = RS_DONE THEN "none" ELSE "RsyncError"]
    /\ UNCHANGED <<jobs, callback_refcnt>>
    /\ UNCHANGED iter_vars

\* begin_create_delta (lines 144-151) on a signature capsule, or on a job
\* capsule, which GET_SIG_FROM_CAPSULE turns down.
begin_create_delta ==
    /\ Len(jobs) < MaxJobs
    /\ \/ /\ LiveJobs # {}
          /\ last' = Outcome("begin_create_delta", "TypeError", NotCalled)
                        @@ [sig |-> 0, sig_built |-> FALSE]
          /\ UNCHANGED jobs
       \/ \E s \in LiveSigs, f \in Failures :
             LET c == CREATE_JOB(NULL, f)
             IN  /\ jobs' = WithJob("delta", c, s)
                 /\ last' = Outcome("begin_create_delta", "none", c)
                               @@ [sig |-> s, sig_built |-> sigs[s].built]
    /\ UNCHANGED <<sigs, callback_refcnt>>
    /\ UNCHANGED iter_vars

\* An argument of begin_patch that is not callable.
NOT_CALLABLE == "not_callable"

\* A check that lets every object through.
PyCallable_CheckAnything(arg) == arg # NULL

\* PyCallable_Check(callback) (line 171).
PyCallable_Check(arg) == arg = CALLBACK

\* begin_patch (lines 169-174) with a callable or a non-callable argument;
\* callback_refcnt counts the references to the argument.
begin_patch ==
    /\ Len(jobs) < MaxJobs
    /\ \E arg \in {CALLBACK, NOT_CALLABLE} :
          IF ~PyCallable_Check(arg)
          THEN /\ last' = Outcome("begin_patch", "TypeError", NotCalled) @@ [arg |-> arg]
               /\ UNCHANGED <<jobs, callback_refcnt>>
          ELSE \E f \in Failures :
                  LET c == CREATE_JOB(arg, f)
                  IN  /\ jobs' = WithJob("patch", c, 0)
                      /\ callback_refcnt' = callback_refcnt + c.incref - c.decref
                      /\ last' = Outcome("begin_patch", "none", c) @@ [arg |-> arg]
    /\ UNCHANGED sigs
    /\ UNCHANGED iter_vars

\* The owner drops a job capsule: free_job_with_callback_capsule runs (lines 17-25).
DestroyJobCapsule ==
    /\ \E j \in LiveJobs :
          LET d == free_job_with_callback_capsule(jobs[j])
          IN  /\ jobs' = [jobs EXCEPT ![j].capsule = "destroyed",
                                      ![j].frees = @ + d.rs_job_free]
              /\ callback_refcnt' = callback_refcnt - d.decref
              /\ last' = [op |-> "destroy_job", job |-> j]
    /\ UNCHANGED sigs
    /\ UNCHANGED iter_vars

\* The owner drops a signature capsule: free_sig_capsule runs (lines 27-31).
DestroySigCapsule ==
    /\ \E s \in LiveSigs :
          /\ sigs' = [sigs EXCEPT ![s].capsule = "destroyed", ![s].frees = @ + 1]
          /\ last' = [op |-> "destroy_sig", sig |-> s]
    /\ UNCHANGED <<jobs, callback_refcnt>>
    /\ UNCHANGED iter_vars

\* --------------------------------------------------------- specification
RECURSIVE SeqsUpTo(_)
SeqsUpTo(n) == IF n = 0 THEN {<<>>}
               ELSE SeqsUpTo(n - 1) \cup
                    {Append(s, b) : s \in {t \in SeqsUpTo(n - 1) : Len(t) = n - 1}, b \in Bytes}

\* No call of iter_job made yet on a job of one of `kinds` with one of `streams` to feed.
InitIter(kinds, streams) ==
    /\ job_kind \in kinds
    /\ engine = NewJob
    /\ stream \in streams
    /\ fed = 0
    /\ collected = <<>>
    /\ job_done = FALSE
    /\ job_dead = FALSE
    /\ job_grew = FALSE
    /\ pc = "idle"
    /\ input_buf = <<>>
    /\ output_array = [len |-> 0, data |-> <<>>]
    /\ output_buf_len = 0
    /\ buffer = InitBuffer(0, 0)
    /\ output_size = 0
    /\ result = RS_DONE
    /\ ret = NoRet
    /\ results = <<>>
    /\ eng_consumed = 0
    /\ eng_written = 0
    /\ grows = 0
    /\ cb_calls = 0
    /\ cb_raised = FALSE
    /\ cb_len = NoLen

\* No begin_* call made yet; the caller holds one reference to its callback.
InitLife ==
    /\ jobs = <<>>
    /\ sigs = <<>>
    /\ callback_refcnt = 1
    /\ last = [op |-> "none"]

\* The streaming iterator: iter_job driven over one job handle.
Init == InitIter(JobKinds, SeqsUpTo(MaxStream)) /\ InitLife

Next ==
    \/ IterJobCall
    \/ IterJobLoop
    \/ IterJobGrow
    \/ IterJobRaise
    \/ IterJobReturn

Spec == Init /\ [][Next]_vars

\* A step of a call in progress: iter_job runs in the calling thread without
\* waiting for anything, so a call that has started keeps taking steps.
InCallStep == IterJobLoop \/ IterJobGrow \/ IterJobRaise \/ IterJobReturn

\* One job of any kind, to be fed the longest stream of the largest byte (the
\* one the job emits most output for) in chunks of any size.
FairInit == InitIter(JobKinds, {[i \in 1..MaxStream |-> MaxByte]}) /\ InitLife

FairSpec == FairInit /\ [][Next]_vars /\ WF_vars(InCallStep)

\* The lifecycle of the capsules: the begin_* functions and the destructors.
LifeInit == InitIter({"signature"}, {<<>>}) /\ InitLife

LifeNext ==
    \/ begin_create_signature
    \/ begin_load_signature
    \/ build_hash_table
    \/ begin_create_delta
    \/ begin_patch
    \/ DestroyJobCapsule
    \/ DestroySigCapsule

LifeSpec == LifeInit /\ [][LifeNext]_vars

\* ================================================================ claims
ErrorCodes == {RS_IO_ERROR, RS_MEM_ERROR, RS_INTERNAL_ERROR, RS_CORRUPT}
InCall == pc \in {"loop", "grow", "raise", "return"}
Returned == pc = "idle" /\ ret.kind = "triple"
LastResult == results[Len(results)]

\* C1: a call that returns gives (done, unused, produced): done is true exactly
\* when the last engine iteration of the call reported RS_DONE and false exactly
\* when it reported RS_BLOCKED, unused is the input the engine has not consumed,
\* produced is what the engine wrote in the call; and the loop stops at the
\* first RS_DONE or RS_BLOCKED (no iteration follows one).
C1_ReturnedTriple ==
    /\ \A i \in 1..Len(results) :
          LoopBreaks(results[i]) =>
             /\ i = Len(results)
             /\ pc \in {"return", "idle"}
             /\ (pc = "idle" => ret.kind = "triple")
    /\ Returned =>
          /\ Len(results) >= 1
          /\ LastResult \in {RS_DONE, RS_BLOCKED}
          /\ ret.done = (LastResult = RS_DONE)
          /\ (~ret.done) = (LastResult = RS_BLOCKED)
          /\ ret.unused = Len(input_buf) - eng_consumed
          /\ ret.produced = eng_written

\* A call returned not done after a growth, with input left and output made.
C1_Witness ==
    Returned /\ ~ret.done /\ ret.unused > 0 /\ ret.produced > 0 /\ grows >= 1

\* C2: the output the caller collects over the step calls, growth included, is
\* at every return a prefix of, and once done equal to, the output of the same
\* job over the same input with one buffer that is large enough from the start.
IsPrefix(a, b) == Len(a) <= Len(b) /\ a = SubSeq(b, 1, Len(a))

C2_GrowthSameOutput ==
    /\ IsPrefix(collected, WholeOutput(stream, IO_BUFFER_SIZE))
    /\ job_done => collected = WholeOutput(stream, IO_BUFFER_SIZE)

\* A job that grew its output array on the way is done, with more output than
\* any array the caller passed could hold.
C2_Witness == job_done /\ job_grew /\ Len(collected) > MaxOut

\* C3: a growth event leaves the input cursor and the bytes stored in the
\* output array as they are, and the cursor it leaves is at the first byte of
\* the chunk the engine has not consumed.
C3_GrowthKeepsCursors ==
    [][(pc = "grow" /\ pc' = "loop") =>
          /\ buffer'.next_in = buffer.next_in
          /\ buffer'.avail_in = buffer.avail_in
          /\ input_buf' = input_buf
          /\ output_array'.data = output_array.data
          /\ buffer'.next_in = eng_consumed'
          /\ buffer'.avail_in = Len(input_buf') - eng_consumed']_vars

\* After a growth: part of the chunk consumed, part left, bytes already stored.
C3_Witness ==
    pc = "loop" /\ grows >= 1 /\ buffer.next_in > 0 /\ buffer.avail_in > 0 /\ output_size > 0

\* C4: throughout a call, output_size + avail_out is the length of the output
\* buffer and the write cursor is output_size bytes into it; output_size is
\* what the engine iterations of the call wrote, and it never exceeds the
\* length of the array; the returned count is that sum.
C4_OutputAccounting ==
    /\ InCall =>
          /\ output_size + buffer.avail_out = output_buf_len
          /\ output_buf_len = output_array.len
          /\ buffer.next_out = output_size
          /\ output_size = eng_written
          /\ output_size <= output_array.len
    /\ Returned => (ret.produced = eng_written /\ ret.produced <= output_array.len)

\* A call returned after a growth, with bytes written before and after it.
C4_Witness == Returned /\ grows >= 1 /\ ret.produced > MaxOut

\* C5 (as claimed): an engine iteration that reports an error code ends the
\* call with RsyncError at once: no growth and no further iteration follow it.
C5_ErrorStopsCall ==
    \A i \in 1..Len(results) :
       results[i] \in ErrorCodes =>
          /\ i = Len(results)
          /\ pc \in {"raise", "idle"}
          /\ (pc = "idle" => (ret.kind = "error" /\ ret.exc = "RsyncError"))

\* C6 (as claimed): in a call made after a call reported done, the engine is
\* not iterated, and the call returns (True, 0, 0).
C6_IdempotentCompletion ==
    (job_done /\ InCall) =>
       /\ results = <<>>
       /\ pc = "return" =>
            BuildValue(result, buffer, output_size)
               = [kind |-> "triple", done |-> TRUE, unused |-> 0, produced |-> 0]

\* C10 (as claimed): once the callback has raised in a call, the call fails
\* with the I/O error: the callback is not called again in it, no growth or
\* iteration follows, and no triple is returned.
C10_CallbackRaiseFailsCall ==
    [][(cb_raised /\ InCall) =>
          /\ cb_calls' = cb_calls
          /\ pc' \in {"raise", "idle"}
          /\ (pc' = "idle" =>
                (ret'.kind = "error" /\ ret'.exc = "RsyncError" /\ ret'.code = RS_IO_ERROR))]_vars

\* C7 (as claimed): begin_create_delta on a signature whose hash table was
\* never built fails with StateError without calling rs_delta_begin.
C7_UnbuiltSignatureRejected ==
    (last.op = "begin_create_delta" /\ last.sig # 0 /\ ~last.sig_built) =>
       (last.exc = "StateError" /\ ~last.func_called)

\* C8: a job the engine allocated has been freed exactly once when no live
\* capsule holds it (attaching the pointer failed, attaching the context
\* failed, the signature capsule could not be made, or the capsule was
\* destroyed) and not at all while its capsule is live; a capsule that never
\* got a job frees nothing.
C8_JobsFreedOnce ==
    /\ \A j \in 1..Len(jobs) :
          jobs[j].frees = (IF jobs[j].capsule = "live" THEN 0 ELSE 1)
    /\ (last.op \in {"begin_create_signature", "begin_load_signature",
                     "begin_create_delta", "begin_patch"}
        /\ last.how \in {"no_capsule", "no_job", "not_reached"}) => last.rs_job_free = 0

\* Jobs on all three paths: pointer not attached, context not attached, and a
\* complete handle destroyed.
C8_Witness ==
    /\ \E j \in 1..Len(jobs) : jobs[j].how = "setpointer_failed"
    /\ \E j \in 1..Len(jobs) : jobs[j].how = "setcontext_failed"
    /\ \E j \in 1..Len(jobs) : jobs[j].how = "ok" /\ jobs[j].capsule = "destroyed"

\* C9: the callback's reference count is the caller's one reference plus one
\* for each live patch handle, each of which has the callback as its context:
\* a successful begin_patch takes one reference, destroying the handle drops
\* one, and a begin_patch that fails leaves the count as it was.
LivePatchJobs == {j \in LiveJobs : jobs[j].kind = "patch"}

C9_CallbackReference ==
    /\ callback_refcnt = 1 + Cardinality(LivePatchJobs)
    /\ \A j \in LivePatchJobs : jobs[j].context = CALLBACK

\* One patch handle live, one destroyed, and a begin_patch that failed at
\* attaching the callback.
C9_Witness ==
    /\ LivePatchJobs # {}
    /\ \E j \in 1..Len(jobs) :
          jobs[j].kind = "patch" /\ jobs[j].how = "ok" /\ jobs[j].capsule = "destroyed"
    /\ \E j \in 1..Len(jobs) : jobs[j].kind = "patch" /\ jobs[j].how = "setcontext_failed"

\* C11 (as claimed): a callback result that is no integer, or an integer
\* outside 0..len, makes copy_callback report RS_INTERNAL_ERROR, so that a
\* length above len, or a negative one, never reaches librsync as the number
\* of bytes read: whatever copy_callback leaves in *len with RS_DONE is in 0..len.
C11_BadLengthRejected == cb_len \in {NoLen} \cup 0..CopyLen

\* C12: begin_patch with a non-callable argument fails with TypeError, the
\* engine's begin function is not called, no job or capsule comes to exist
\* and no reference to the argument is taken.
C12_NonCallableRejected ==
    [][(last'.op = "begin_patch" /\ last'.arg = NOT_CALLABLE) =>
          /\ last'.exc = "TypeError"
          /\ ~last'.func_called
          /\ ~last'.returned
          /\ jobs' = jobs
          /\ callback_refcnt' = callback_refcnt]_vars

C12_Witness ==
    /\ last.op = "begin_patch"
    /\ last.arg = NOT_CALLABLE
    /\ last.exc = "TypeError"
    /\ Len(jobs) > 0

\* C13 (as claimed): a call with empty input and an output buffer of at least
\* one byte does not fail unless the engine reported an error code in it: the
\* job is driven to completion from the data fed before.
C13_EmptyInputCallSucceeds ==
    (pc = "idle" /\ ret.kind = "error" /\ input_buf = <<>> /\ output_buf_len >= 1) =>
       \E i \in 1..Len(results) : results[i] \in ErrorCodes

\* C14 (as claimed): whatever the order in which capsules are dropped, the
\* signature a live delta job was made from has not been freed.
C14_DeltaSignatureAlive ==
    \A j \in LiveJobs :
       jobs[j].kind = "delta" => sigs[jobs[j].sig].frees = 0

\* C15: all through a call, whatever the job has consumed and however often
\* the output array has grown, eof_in is set exactly when the input chunk of
\* the call is empty.
C15_EofIffEmptyInput ==
    InCall => (buffer.eof_in <=> (Len(input_buf) = 0))

C15_Witness ==
    /\ InCall
    /\ Len(input_buf) > 0
    /\ buffer.avail_in = 0
    /\ grows > 0
    /\ ~buffer.eof_in

\* A growth event: the step from the growth branch back into the loop.
GrowthStep == pc = "grow" /\ pc' = "loop"

\* C16: a growth event sets the length of the output array to
\* max(IO_BUFFER_SIZE, 2 * previous length), which is more than the previous
\* length, so at least one byte of output space is free after it; and the
\* length of the output array never goes down within a call.
C16_GrowthDoubles ==
    [][/\ GrowthStep =>
             /\ output_array'.len = MAX(IO_BUFFER_SIZE, 2 * output_array.len)
             /\ output_array'.len > output_array.len
             /\ buffer'.avail_out >= 1
       /\ InCall => output_array'.len >= output_array.len]_vars

C16_Witness ==
    /\ pc = "loop"
    /\ grows = 2
    /\ output_array.len = 2 * IO_BUFFER_SIZE
    /\ buffer.avail_out >= 1

\* C17 (as claimed): a growth event yields a length of at least IO_BUFFER_SIZE
\* and adds at least IO_BUFFER_SIZE bytes to the previous length.
C17_MinimumIncrement ==
    [][GrowthStep =>
          /\ output_array'.len >= IO_BUFFER_SIZE
          /\ output_array'.len - output_array.len >= IO_BUFFER_SIZE]_vars

\* C17 (amended): a growth event yields a length of at least IO_BUFFER_SIZE;
\* it adds at least the previous length and at least what the previous length
\* lacked to IO_BUFFER_SIZE, and at least IO_BUFFER_SIZE bytes only when the
\* previous length was 0 or was IO_BUFFER_SIZE or more.
C17_MinimumSize ==
    [][GrowthStep =>
          LET old == output_array.len
              new == output_array'.len
          IN  /\ new >= IO_BUFFER_SIZE
              /\ new - old >= old
              /\ new - old >= IO_BUFFER_SIZE - old
              /\ (old = 0 \/ old >= IO_BUFFER_SIZE) => new - old >= IO_BUFFER_SIZE
              /\ (0 < old /\ old < IO_BUFFER_SIZE) => new - old < IO_BUFFER_SIZE]_vars

\* Just after a growth event from a length between 1 and IO_BUFFER_SIZE - 1:
\* the job had written into the array before it grew to IO_BUFFER_SIZE.
C17_Witness ==
    /\ pc = "loop"
    /\ grows = 1
    /\ eng_written > 0
    /\ output_array.len = IO_BUFFER_SIZE

\* C18: a call makes at most one engine iteration more than it has growth
\* events, the growth events are bounded by the memory there is, and a call
\* in progress always comes to its end, with a triple or with an exception.
C18_CallTerminates ==
    /\ [](InCall => (Len(results) <= grows + 1 /\ grows <= MaxGrow))
    /\ (InCall ~> (pc = "idle" /\ ret.kind \in {"triple", "error"}))

C18_Witness ==
    /\ pc = "idle"
    /\ ret.kind = "error"
    /\ ret.exc = "MemoryError"
    /\ Len(results) = MaxGrow + 1
    /\ grows = MaxGrow

\* C19: the output array changes its length within a call only at a growth
\* event, and a growth event follows only an iteration that reported neither
\* RS_DONE nor RS_BLOCKED and left input unconsumed; an iteration that
\* reported neither with no input left is followed by RsyncError, with the
\* output array as long as it was.
C19_GrowthOnlyWithInputLeft ==
    [][/\ (InCall /\ output_array'.len # output_array.len) => GrowthStep
       /\ GrowthStep => (result \notin {RS_DONE, RS_BLOCKED} /\ buffer.avail_in > 0)
       /\ (pc = "loop" /\ result' \notin {RS_DONE, RS_BLOCKED} /\ buffer'.avail_in = 0) =>
             (pc' = "raise" /\ output_array'.len = output_array.len)
       /\ pc = "raise" =>
             /\ pc' = "idle"
             /\ ret' = [kind |-> "error", exc |-> "RsyncError", code |-> result]
             /\ output_array' = output_array]_vars

\* A call with empty input has failed with RsyncError after the job reported
\* RS_RUNNING, and the array has the length it was passed with.
C19_Witness ==
    /\ pc = "idle"
    /\ ret.kind = "error"
    /\ ret.exc = "RsyncError"
    /\ ret.code = RS_RUNNING
    /\ input_buf = <<>>
    /\ grows = 0
    /\ output_array.len = output_buf_len

\* C20 (as claimed): a signature has been freed exactly once when no live
\* capsule holds it and not at all while its capsule is live, whatever
\* happened to the job that loads it; and begin_load_signature never calls
\* rs_free_sumset for a signature that was not made.
C20_SignatureFreedOnce ==
    /\ \A s \in 1..Len(sigs) :
          sigs[s].frees = (IF sigs[s].capsule = "live" THEN 0 ELSE 1)
    /\ last.op = "begin_load_signature" => ~last.free_sumset_null

====
